---- MODULE Spec2Model ----
(***************************************************************************)
(* fastest-races: the metrics pipeline of src/fastest_races.               *)
(*                                                                         *)
(*   raw rows --get_ranking_data--> rankings                               *)
(*            --calculate_performance_metrics--> output table              *)
(*                                                                         *)
(* Text is modelled as a sequence of one-character strings, so that the    *)
(* regular expression, str.split, str.strip, int(), the f-string formats   *)
(* and the lexicographic string sorts of the code are computed character   *)
(* by character.                                                           *)
(***************************************************************************)
EXTENDS Integers, Sequences, FiniteSets, TLC

\* ------------------------------------------------------------------ bounds

\* The largest number of raw rows of a scraped table.
MaxRows == 3

\* ------------------------------------------------------------- constants

MINUTE_SECONDS == 60

HOUR_SECONDS == 3600

\* ------------------------------------------------------------------ text

\* The characters the model's texts are made of, in code point order.
Ascii ==
    << " ", ",", "0", "1", "2", "3", "4", "5", "6", "7", "8", "9", ":", "<",
       "B", "C", "D", "F", "G", "K", "P", "U", "V", "a", "b", "c", "e",
       "n", "o", "r", "s", "t", "u", "y" >>

\* The rank of a character in code point order (Python compares str by it).
Ord(c) == CHOOSE i \in 1..Len(Ascii) : Ascii[i] = c

IsDigit(c) == c \in {"0", "1", "2", "3", "4", "5", "6", "7", "8", "9"}

DigitVal(c) == Ord(c) - Ord("0")

DigitChar(d) == Ascii[Ord("0") + d]

\* Python's str < str: the first differing character decides, a proper
\* prefix is smaller.
RECURSIVE StrLess(_, _)
StrLess(a, b) ==
    IF b = <<>> THEN FALSE
    ELSE IF a = <<>> THEN TRUE
    ELSE IF Head(a) = Head(b) THEN StrLess(Tail(a), Tail(b))
    ELSE Ord(Head(a)) < Ord(Head(b))

AllDigits(s) == \A i \in 1..Len(s) : IsDigit(s[i])

\* int(part) for a part made of decimal digits.
RECURSIVE ParseInt(_)
ParseInt(s) ==
    IF s = <<>> THEN 0
    ELSE ParseInt(SubSeq(s, 1, Len(s) - 1)) * 10 + DigitVal(s[Len(s)])

\* f"{n:d}"
RECURSIVE FormatD(_)
FormatD(n) ==
    IF n < 10 THEN << DigitChar(n) >>
    ELSE FormatD(n \div 10) \o << DigitChar(n % 10) >>

\* f"{n:02d}": zero-padded to a width of at least two.
Format02d(n) == IF n < 10 THEN << "0" >> \o FormatD(n) ELSE FormatD(n)

\* str.split(sep) with no limit: every separator splits.
RECURSIVE SplitAll(_, _)
SplitAll(s, sep) ==
    IF \E i \in 1..Len(s) : s[i] = sep
    THEN LET i == CHOOSE j \in 1..Len(s) :
                      s[j] = sep /\ \A k \in 1..(j - 1) : s[k] # sep
         IN << SubSeq(s, 1, i - 1) >> \o SplitAll(SubSeq(s, i + 1, Len(s)), sep)
    ELSE << s >>

\* A slip: the limit n=1 left out, keeping the first two parts.
SplitFirstTwoParts(s, sep) ==
    LET parts == SplitAll(s, sep)
    IN IF Len(parts) >= 2 THEN << parts[1], parts[2] >> ELSE parts

\* str.split(sep, n=1): only the first separator splits.
SplitFirst(s, sep) ==
    IF \E i \in 1..Len(s) : s[i] = sep
    THEN LET i == CHOOSE j \in 1..Len(s) :
                      s[j] = sep /\ \A k \in 1..(j - 1) : s[k] # sep
         IN << SubSeq(s, 1, i - 1), SubSeq(s, i + 1, Len(s)) >>
    ELSE << s >>

\* str.strip(): leading and trailing whitespace removed.
RECURSIVE Strip(_)
Strip(s) ==
    IF s = <<>> THEN s
    ELSE IF Head(s) = " " THEN Strip(Tail(s))
    ELSE IF s[Len(s)] = " " THEN Strip(SubSeq(s, 1, Len(s) - 1))
    ELSE s

Reverse(s) == [i \in 1..Len(s) |-> s[Len(s) + 1 - i]]

\* ------------------------------------------------------------ time codec

\* Two digits exactly: \d{2}
TwoDigits(s) == Len(s) = 2 /\ AllDigits(s)

\* Series.str.match(r"^\d+:\d{2}(:\d{2})?$")
PerfMatches(s) ==
    LET parts == SplitAll(s, ":")
    IN /\ Len(parts) \in {2, 3}
       /\ parts[1] # <<>> /\ AllDigits(parts[1])
       /\ \A i \in 2..Len(parts) : TwoDigits(parts[i])

\* sum(int(part) * 60**i for i, part in enumerate(reversed(x.split(":"))))
RECURSIVE SumParts(_, _)
SumParts(rev, weight) ==
    IF rev = <<>> THEN 0
    ELSE ParseInt(Head(rev)) * weight
         + SumParts(Tail(rev), weight * MINUTE_SECONDS)

PerfSeconds(x) == SumParts(Reverse(SplitAll(x, ":")), 1)

\* A slip: the minutes of the hour not reduced modulo the hour.
format_seconds_whole_minutes(total_seconds) ==
    IF total_seconds < HOUR_SECONDS
    THEN Format02d(total_seconds \div MINUTE_SECONDS) \o << ":" >>
         \o Format02d(total_seconds % MINUTE_SECONDS)
    ELSE FormatD(total_seconds \div HOUR_SECONDS) \o << ":" >>
         \o Format02d(total_seconds \div MINUTE_SECONDS)
         \o << ":" >> \o Format02d(total_seconds % MINUTE_SECONDS)

format_seconds_to_display(total_seconds) ==
    IF total_seconds < HOUR_SECONDS
    THEN Format02d(total_seconds \div MINUTE_SECONDS) \o << ":" >>
         \o Format02d(total_seconds % MINUTE_SECONDS)
    ELSE FormatD(total_seconds \div HOUR_SECONDS) \o << ":" >>
         \o Format02d((total_seconds % HOUR_SECONDS) \div MINUTE_SECONDS)
         \o << ":" >> \o Format02d(total_seconds % MINUTE_SECONDS)

\* A slip: the minutes of the hour left out of the label.
format_threshold_hours_only(threshold_min) ==
    IF threshold_min >= MINUTE_SECONDS
    THEN << "<", " " >> \o FormatD(threshold_min \div MINUTE_SECONDS)
         \o << ":" >> \o Format02d(0)
    ELSE << "<", " " >> \o FormatD(threshold_min)

format_threshold_minutes_to_display(threshold_min) ==
    IF threshold_min >= MINUTE_SECONDS
    THEN << "<", " " >> \o FormatD(threshold_min \div MINUTE_SECONDS)
         \o << ":" >> \o Format02d(threshold_min % MINUTE_SECONDS)
    ELSE << "<", " " >> \o FormatD(threshold_min)

\* ------------------------------------------------------------- raw input

\* Perf cells of the scraped table: times of one race distance, one of
\* them a whole number of minutes, and a cell that is no time.
PerfTexts ==
    { << "2", "7", ":", "5", "7" >>,
      << "2", "8", ":", "3", "0" >>,
      << "3", "0", ":", "0", "0" >>,
      << "a", "b", "c" >> }

\* Perf cells around the hour, where the display form changes from MM:SS
\* to H:MM:SS and the threshold labels from "< M" to "< H:MM".
HourPerfTexts ==
    { << "5", "8", ":", "3", "0" >>,
      << "5", "9", ":", "1", "0" >>,
      << "5", "9", ":", "5", "9" >>,
      << "1", ":", "0", "0", ":", "3", "0" >> }

\* Perf cells that are, and that just miss being, a time.
FewPerfTexts ==
    { << "2", "8", ":", "3", "0" >>,
      << "2", "8", ":", "3" >> }

\* Venue and Date cells, as the fields "%d %b %y" reads a date (day, month,
\* two-digit year): a venue without a country on two days, and a venue with
\* a country after a comma.
Places ==
    { [Venue |-> << "B" >>, Date |-> << 1, 1, 24 >>],
      [Venue |-> << "B" >>, Date |-> << 2, 1, 24 >>],
      [Venue |-> << "P", ",", " ", "G", "B" >>, Date |-> << 1, 1, 24 >>] }

\* Venue cells with no comma, a comma, spaces around the country and two
\* commas; the first of them on two days.
ManyPlaces ==
    { [Venue |-> << "B" >>, Date |-> << 1, 1, 24 >>],
      [Venue |-> << "B" >>, Date |-> << 2, 1, 24 >>],
      [Venue |-> << "B", ",", " ", "U", "K", " " >>, Date |-> << 1, 1, 24 >>],
      [Venue |-> << "P", ",", "G", "B" >>, Date |-> << 1, 1, 24 >>],
      [Venue |-> << "P", ",", "G", ",", " ", "B" >>, Date |-> << 1, 1, 24 >>] }

\* The cell of a column the table does not have.
Absent == << >>

\* The rows a table can hold: with a Date column, or without one.
RawRows(perfs, places, hasDate) ==
    { [ Venue |-> pl.Venue, Perf |-> perf,
        Date |-> IF hasDate THEN pl.Date ELSE Absent ] :
      pl \in places, perf \in perfs }

\* --------------------------------------------------------- column names

ColDate == << "D", "a", "t", "e" >>

ColVenue == << "V", "e", "n", "u", "e" >>

ColCountry == << "C", "o", "u", "n", "t", "r", "y" >>

ColFastest == << "F", "a", "s", "t", "e", "s", "t" >>

\* fillna("UK")
DefaultCountry == << "U", "K" >>

\* ------------------------------------------------------ get_ranking_data

\* pd.to_datetime(format="%d %b %y"): %y from 69 on is 19yy, below is 20yy.
ToDatetime(d) ==
    << (IF d[3] >= 69 THEN 1900 ELSE 2000) + d[3], d[2], d[1] >>

\* A missing cell (None, NaN) of a frame.
NaN == << "NaN" >>

\* Venue.str.split(",", n=1, expand=True): a frame with one column per
\* part of the longest split, the shorter rows filled with None.
SplitVenueCountry(rows) ==
    LET parts == [i \in 1..Len(rows) |-> SplitFirst(rows[i].Venue, ",")]
        width == IF \E i \in 1..Len(rows) : Len(parts[i]) >= 2 THEN 2 ELSE 1
    IN [ width |-> width,
         cells |-> [i \in 1..Len(rows) |->
                      [k \in 1..width |->
                         IF k <= Len(parts[i]) THEN parts[i][k] ELSE NaN]] ]

\* split_venue_country.get(1, pd.Series(dtype=str)) assigned to the frame:
\* column 1 when the split has one, else an empty Series, which aligns to
\* a missing cell in every row.
CountryColumn(split, n) ==
    [i \in 1..n |-> IF split.width >= 2 THEN split.cells[i][2] ELSE NaN]

\* .fillna("UK")
FillNa(cell) == IF cell = NaN THEN DefaultCountry ELSE cell

\* A slip: every row kept, whatever its Perf.
TimedRowsOnlyKeepAll(rows) == rows

\* named_cols_only.loc[named_cols_only["Perf"].str.match(...)]
TimedRowsOnly(rows) == SelectSeq(rows, LAMBDA r : PerfMatches(r.Perf))

\* sort_values("Perf"): the rows in some order of non-decreasing Perf text
\* (the default quicksort gives no promise on the order of equal keys).
RECURSIVE SortedByPerf(_)
SortedByPerf(rows) ==
    IF rows = << >> THEN { << >> }
    ELSE UNION { { << rows[i] >> \o rest :
                     rest \in SortedByPerf(
                         [k \in 1..(Len(rows) - 1) |->
                            IF k < i THEN rows[k] ELSE rows[k + 1]]) } :
                 i \in { j \in 1..Len(rows) :
                           \A k \in 1..Len(rows) :
                               ~StrLess(rows[k].Perf, rows[j].Perf) } }

\* The frame get_ranking_data returns for the sorted, timed rows.
Normalized(rows) ==
    LET split == SplitVenueCountry(rows)
        country == CountryColumn(split, Len(rows))
    IN [i \in 1..Len(rows) |->
          [ Date |-> ToDatetime(rows[i].Date),
            Venue |-> split.cells[i][1],
            Country |-> Strip(FillNa(country[i])),
            Perf |-> rows[i].Perf,
            Perf_seconds |-> PerfSeconds(rows[i].Perf) ]]

\* A slip: no early return for a frame without timed rows.
get_ranking_data_no_early_return(t) ==
    LET timed == TimedRowsOnly(t.rows)
    IN IF ~t.hasDate
       THEN { [raised |-> "ValueError", df |-> << >>] }
       ELSE { [raised |-> "none", df |-> Normalized(s)] :
              s \in SortedByPerf(timed) }

\* The outcomes of get_ranking_data on a table: a returned frame (its rows),
\* or a raised ValueError.
get_ranking_data(t) ==
    LET timed == TimedRowsOnly(t.rows)
    IN IF timed = << >>
       THEN { [raised |-> "none", df |-> << >>] }
       ELSE IF ~t.hasDate
       THEN { [raised |-> "ValueError", df |-> << >>] }
       ELSE { [raised |-> "none", df |-> Normalized(s)] :
              s \in SortedByPerf(timed) }

\* ----------------------------------------- calculate_performance_metrics

\* Ordered dicts (results = {}) as sequences of <<key, value>>.
DictHas(d, k) == \E i \in 1..Len(d) : d[i][1] = k

DictGet(d, k) == d[CHOOSE i \in 1..Len(d) : d[i][1] = k][2]

\* d[k] = v: an existing key keeps its place and takes the new value.
DictSet(d, k, v) ==
    IF DictHas(d, k)
    THEN [i \in 1..Len(d) |-> IF d[i][1] = k THEN << k, v >> ELSE d[i]]
    ELSE Append(d, << k, v >>)

DictKeys(d) == [i \in 1..Len(d) |-> d[i][1]]

SeqHas(s, x) == \E i \in 1..Len(s) : s[i] = x

\* math.floor(a / b) and math.ceil(a / b) for a >= 0, b > 0
FloorDiv(a, b) == a \div b

CeilDiv(a, b) == IF a % b = 0 THEN a \div b ELSE (a \div b) + 1

Max(a, b) == IF a >= b THEN a ELSE b

\* df["Perf_seconds"].min() and .max()
MinSeconds(df) ==
    CHOOSE m \in { df[i].Perf_seconds : i \in 1..Len(df) } :
        \A i \in 1..Len(df) : m <= df[i].Perf_seconds

MaxSeconds(df) ==
    CHOOSE m \in { df[i].Perf_seconds : i \in 1..Len(df) } :
        \A i \in 1..Len(df) : m >= df[i].Perf_seconds

\* A slip: the boundary at or below the fastest time.
start_minute_threshold_floor(df) == FloorDiv(MinSeconds(df), MINUTE_SECONDS)

start_minute_threshold(df) == FloorDiv(MinSeconds(df), MINUTE_SECONDS) + 1

\* A slip: the slowest time rounded down.
end_minute_threshold_floor(df) ==
    Max(start_minute_threshold(df), FloorDiv(MaxSeconds(df), MINUTE_SECONDS))

\* A slip: max(start, end) left out.
end_minute_threshold_no_max(df) == CeilDiv(MaxSeconds(df), MINUTE_SECONDS)

end_minute_threshold(df) ==
    Max(start_minute_threshold(df), CeilDiv(MaxSeconds(df), MINUTE_SECONDS))

\* list(range(start, end + 1)) or [math.ceil(global_min_seconds / 60)]
dynamic_threshold_minutes(df) ==
    LET lo == start_minute_threshold(df)
        hi == end_minute_threshold(df)
        range == [i \in 1..(IF hi >= lo THEN hi - lo + 1 ELSE 0) |-> lo + i - 1]
    IN IF range # << >> THEN range
       ELSE << CeilDiv(MinSeconds(df), MINUTE_SECONDS) >>

\* A slip: <= for <.
RECURSIVE CountUnderOrAt(_, _)
CountUnderOrAt(group, threshold_seconds_val) ==
    IF group = << >> THEN 0
    ELSE (IF Head(group).Perf_seconds <= threshold_seconds_val THEN 1 ELSE 0)
         + CountUnderOrAt(Tail(group), threshold_seconds_val)

\* (group["Perf_seconds"] < threshold_seconds_val).sum()
RECURSIVE CountUnder(_, _)
CountUnder(group, threshold_seconds_val) ==
    IF group = << >> THEN 0
    ELSE (IF Head(group).Perf_seconds < threshold_seconds_val THEN 1 ELSE 0)
         + CountUnder(Tail(group), threshold_seconds_val)

\* The loop of _aggregate_dynamic_thresholds over the thresholds.
RECURSIVE ThresholdCounts(_, _, _)
ThresholdCounts(group, minutes, results) ==
    IF minutes = << >> THEN results
    ELSE ThresholdCounts(
             group, Tail(minutes),
             DictSet(results,
                     format_threshold_minutes_to_display(Head(minutes)),
                     CountUnder(group, Head(minutes) * MINUTE_SECONDS)))

_aggregate_dynamic_thresholds(group, minutes) ==
    DictSet(ThresholdCounts(group, minutes, << >>),
            ColFastest,
            format_seconds_to_display(MinSeconds(group)))

GroupKey(r) == << r.Date, r.Venue, r.Country >>

\* Tuples of integers (dates) in their order.
DateLess(a, b) ==
    \E k \in 1..3 : a[k] < b[k] /\ \A j \in 1..(k - 1) : a[j] = b[j]

\* groupby sorts the groups by their keys.
KeyLess(a, b) ==
    \/ DateLess(a[1], b[1])
    \/ a[1] = b[1] /\ StrLess(a[2], b[2])
    \/ a[1] = b[1] /\ a[2] = b[2] /\ StrLess(a[3], b[3])

RECURSIVE SortedKeys(_)
SortedKeys(keys) ==
    IF keys = {} THEN << >>
    ELSE LET k == CHOOSE x \in keys : \A y \in keys : ~KeyLess(y, x)
         IN << k >> \o SortedKeys(keys \ {k})

\* A slip: the groups in the order their keys first appear (sort=False).
GroupByAppearance(df) ==
    LET firsts == { i \in 1..Len(df) :
                      \A j \in 1..(i - 1) : GroupKey(df[j]) # GroupKey(df[i]) }
        keys == [g \in 1..Cardinality(firsts) |->
                   GroupKey(df[CHOOSE i \in firsts :
                       Cardinality({ j \in firsts : j < i }) = g - 1])]
    IN [g \in 1..Len(keys) |->
          [ key |-> keys[g],
            group |-> SelectSeq(df, LAMBDA r : GroupKey(r) = keys[g]) ]]

\* df.groupby(["Date", "Venue", "Country"], dropna=False)
GroupBy(df) ==
    LET keys == SortedKeys({ GroupKey(df[i]) : i \in 1..Len(df) })
    IN [g \in 1..Len(keys) |->
          [ key |-> keys[g],
            group |-> SelectSeq(df, LAMBDA r : GroupKey(r) = keys[g]) ]]

\* grouped.apply(_aggregate_dynamic_thresholds): one row per group.
Applied(df, minutes) ==
    LET groups == GroupBy(df)
    IN [g \in 1..Len(groups) |->
          [ key |-> groups[g].key,
            results |-> _aggregate_dynamic_thresholds(groups[g].group, minutes) ]]

\* The order of two cells of a column: texts for Fastest, numbers otherwise.
CellLess(col, x, y) == IF col = ColFastest THEN StrLess(x, y) ELSE x < y

\* Whether row a sorts strictly before row b under sort_values(by, ascending).
RECURSIVE RowBefore(_, _, _, _)
RowBefore(a, b, by, ascending) ==
    IF by = << >> THEN FALSE
    ELSE LET x == DictGet(a.results, Head(by))
             y == DictGet(b.results, Head(by))
         IN IF x = y THEN RowBefore(a, b, Tail(by), Tail(ascending))
            ELSE IF Head(ascending) THEN CellLess(Head(by), x, y)
            ELSE CellLess(Head(by), y, x)

\* A row put into sorted rows after every row it does not sort before.
RECURSIVE InsertRow(_, _, _, _)
InsertRow(row, sorted, by, ascending) ==
    IF sorted = << >> THEN << row >>
    ELSE LET last == sorted[Len(sorted)]
         IN IF RowBefore(row, last, by, ascending)
            THEN Append(InsertRow(row, SubSeq(sorted, 1, Len(sorted) - 1),
                                  by, ascending), last)
            ELSE Append(sorted, row)

\* output.sort_values(by=..., ascending=...) on several columns: a stable
\* lexicographic sort.
RECURSIVE SortValues(_, _, _)
SortValues(rows, by, ascending) ==
    IF rows = << >> THEN << >>
    ELSE InsertRow(rows[Len(rows)],
                   SortValues(SubSeq(rows, 1, Len(rows) - 1), by, ascending),
                   by, ascending)

\* output["Date"].dt.strftime("%d %b %Y")
Strftime(d) == << d[3], d[2], d[1] >>

\* A slip: Fastest descending like the counts.
ascending_order_all_false(n) == [i \in 1..(n + 1) |-> FALSE]

\* [False] * len(dynamic_threshold_minutes) + [True]
ascending_order(n) == [i \in 1..(n + 1) |-> i = n + 1]

\* The frame calculate_performance_metrics returns: its column names and
\* its rows, each row the cells in column order.
calculate_performance_metrics(df) ==
    IF df = << >>
    THEN [ columns |-> << ColDate, ColVenue, ColCountry, ColFastest >>,
           rows |-> << >> ]
    ELSE
    LET minutes == dynamic_threshold_minutes(df)
        applied == Applied(df, minutes)
        output_columns == DictKeys(applied[1].results)
        labels == [i \in 1..Len(minutes) |->
                     format_threshold_minutes_to_display(minutes[i])]
        sort_columns_for_display == Append(labels, ColFastest)
        existing_sort_columns ==
            SelectSeq(sort_columns_for_display,
                   LAMBDA col : SeqHas(output_columns, col))
        sorted ==
            IF existing_sort_columns # << >>
            THEN SortValues(applied, existing_sort_columns,
                            SubSeq(ascending_order(Len(minutes)), 1,
                                   Len(existing_sort_columns)))
            ELSE applied
        \* reset_index, then the Date column as text
        current_columns ==
            << ColDate, ColVenue, ColCountry >> \o output_columns
        cells == [i \in 1..Len(sorted) |->
                    << << ColDate, Strftime(sorted[i].key[1]) >>,
                       << ColVenue, sorted[i].key[2] >>,
                       << ColCountry, sorted[i].key[3] >> >>
                    \o sorted[i].results]
        wanted == << ColDate, ColVenue, ColCountry, ColFastest >> \o labels
        placed == SelectSeq(wanted, LAMBDA col : SeqHas(current_columns, col))
        remaining_columns ==
            SelectSeq(current_columns, LAMBDA col : ~SeqHas(placed, col))
        final_column_order == placed \o remaining_columns
    IN [ columns |-> final_column_order,
         rows |-> [i \in 1..Len(cells) |->
                     [c \in 1..Len(final_column_order) |->
                        DictGet(cells[i], final_column_order[c])]] ]

\* ----------------------------------------------------------------- state

VARIABLES
    table,       \* the scraped table get_ranking_data reads
    pc,          \* where the run is
    rankings,    \* the frame get_ranking_data returned
    raised,      \* the exception a step raised, or "none"
    thresholds,  \* dynamic_threshold_minutes of the last calculation
    output,      \* the frame calculate_performance_metrics returned
    reports      \* the calls of generate_and_open_html_report so far

vars == << table, pc, rankings, raised, thresholds, output, reports >>

NoFrame == [columns |-> << >>, rows |-> << >>]

\* The tables read_html can hand over: with or without a Date column, of
\* at most MaxRows rows.
InitOver(perfs, places) ==
    /\ \E h \in BOOLEAN, n \in 0..MaxRows :
         \E rows \in [1..n -> RawRows(perfs, places, h)] :
             table = [hasDate |-> h, rows |-> rows]
    /\ pc = "start"
    /\ rankings = << >>
    /\ raised = "none"
    /\ thresholds = << >>
    /\ output = NoFrame
    /\ reports = 0

Init == InitOver(PerfTexts, Places)

\* get_ranking_data returns a frame or raises.
GetRankingData ==
    /\ pc = "start"
    /\ \E r \in get_ranking_data(table) :
         /\ rankings' = r.df
         /\ raised' = r.raised
         /\ pc' = IF r.raised = "none" THEN "ranked" ELSE "failed"
    /\ UNCHANGED << table, thresholds, output, reports >>

\* calculate_performance_metrics on the frame get_ranking_data returned.
CalculatePerformanceMetrics ==
    /\ pc = "ranked"
    /\ thresholds' = IF rankings = << >> THEN << >>
                     ELSE dynamic_threshold_minutes(rankings)
    /\ output' = calculate_performance_metrics(rankings)
    /\ pc' = "calculated"
    /\ UNCHANGED << table, rankings, raised, reports >>

Next == GetRankingData \/ CalculatePerformanceMetrics

Spec == Init /\ [][Next]_vars

\* The same program on tables of times around the hour.
InitHour == InitOver(HourPerfTexts, Places)

SpecHour == InitHour /\ [][Next]_vars

\* The same program on tables of many venue forms.
InitVenue == InitOver(FewPerfTexts, ManyPlaces)

SpecVenue == InitVenue /\ [][Next]_vars

\* What can stand before the first colon of a Perf cell: one, two and three
\* digits, with and without a leading zero, below and above 59.
LeadingFields ==
    { << "0" >>, << "5" >>, << "0", "5" >>, << "5", "9" >>, << "6", "0" >>,
      << "9", "9" >>, << "1", "0", "0" >> }

\* What can stand after a colon of a Perf cell: two digits, up to 99.
PaddedFields ==
    { << "0", "0" >>, << "0", "9" >>, << "5", "9" >>, << "6", "0" >>,
      << "9", "9" >> }

\* Perf cells over the whole pattern, of two and of three parts, and cells
\* the pattern rejects.
PatternPerfTexts ==
    { a \o << ":" >> \o b : a \in LeadingFields, b \in PaddedFields }
    \cup { a \o << ":" >> \o b \o << ":" >> \o c :
             a \in LeadingFields, b \in PaddedFields, c \in PaddedFields }
    \cup { << "5", ":", "9" >>, << "5", ":", "0", "9", ":", "1" >>,
           << ":", "0", "9" >> }

\* The same program on a table of one result, whose Fastest cell is its own
\* time parsed and formatted.
InitPattern ==
    /\ \E perf \in PatternPerfTexts :
         table = [hasDate |-> TRUE,
                  rows |-> << [Venue |-> << "B" >>, Perf |-> perf,
                               Date |-> << 1, 1, 24 >>] >>]
    /\ pc = "start"
    /\ rankings = << >>
    /\ raised = "none"
    /\ thresholds = << >>
    /\ output = NoFrame
    /\ reports = 0

SpecPattern == InitPattern /\ [][Next]_vars

\* Two times, so that results of different venues and days tie.
TiedPerfTexts ==
    { << "2", "7", ":", "5", "7" >>, << "2", "8", ":", "3", "0" >> }

\* One venue on two days.
TiedPlaces ==
    { [Venue |-> << "B" >>, Date |-> << 1, 1, 24 >>],
      [Venue |-> << "B" >>, Date |-> << 2, 1, 24 >>] }

\* The same program on tables whose results tie.
InitTied == InitOver(TiedPerfTexts, TiedPlaces)

SpecTied == InitTied /\ [][Next]_vars

\* ------------------------------------------------------- perform_analysis

\* What get_ranking_data raises before it has a table: get_html_table a
\* ConnectionError or a ValueError, a frame without a wanted column a
\* KeyError.
FetchRaises == { "ConnectionError", "ValueError", "KeyError" }

\* What the writing and opening of the report raises.
ReportRaises == { "OSError", "AttributeError" }

\* The classes that derive from Exception.
ExceptionClasses ==
    { "ConnectionError", "ValueError", "KeyError", "OSError",
      "AttributeError" }

\* A slip: no handler for Exception.
CaughtWhenNamed(exc) == exc \in { "ConnectionError", "ValueError" }

\* except (ConnectionError, ValueError) and, after it, except Exception
Caught(exc) ==
    IF exc \in { "ConnectionError", "ValueError" } THEN TRUE
    ELSE exc \in ExceptionClasses

\* Where perform_analysis is after a step raised.
AfterRaise(exc) == IF Caught(exc) THEN "returned" ELSE "escaped"

\* perform_analysis is entered with a table behind the URL.
InitAnalysis ==
    /\ \E h \in BOOLEAN, n \in 0..MaxRows :
         \E rows \in [1..n -> RawRows(FewPerfTexts, Places, h)] :
             table = [hasDate |-> h, rows |-> rows]
    /\ pc = "analysis"
    /\ rankings = << >>
    /\ raised = "none"
    /\ thresholds = << >>
    /\ output = NoFrame
    /\ reports = 0

\* rankings = get_ranking_data(...); if rankings.empty: return
PerformGetRankingData ==
    /\ pc = "analysis"
    /\ \E r \in get_ranking_data(table)
                 \cup { [raised |-> e, df |-> << >>] : e \in FetchRaises } :
         /\ rankings' = r.df
         /\ raised' = r.raised
         /\ pc' = IF r.raised # "none" THEN AfterRaise(r.raised)
                  ELSE IF r.df = << >> THEN "returned"
                  ELSE "ranked_in_analysis"
    /\ UNCHANGED << table, thresholds, output, reports >>

\* output_df = calculate_performance_metrics(rankings);
\* if output_df.empty: return
PerformCalculate ==
    /\ pc = "ranked_in_analysis"
    /\ thresholds' = dynamic_threshold_minutes(rankings)
    /\ output' = calculate_performance_metrics(rankings)
    /\ pc' = IF output'.rows = << >> THEN "returned"
             ELSE "calculated_in_analysis"
    /\ UNCHANGED << table, rankings, raised, reports >>

\* generate_and_open_html_report(output_df), which returns or raises
PerformReport ==
    /\ pc = "calculated_in_analysis"
    /\ reports' = reports + 1
    /\ \E e \in { "none" } \cup ReportRaises :
         /\ raised' = e
         /\ pc' = IF e = "none" THEN "returned" ELSE AfterRaise(e)
    /\ UNCHANGED << table, rankings, thresholds, output >>

NextAnalysis == PerformGetRankingData \/ PerformCalculate \/ PerformReport

SpecAnalysis == InitAnalysis /\ [][NextAnalysis]_vars

\* ---------------------------------------------------------------- claims

\* calculate_performance_metrics has returned for a non-empty frame.
Calculated == pc = "calculated" /\ rankings # << >>

\* The times of the normalized results.
Times == { rankings[i].Perf_seconds : i \in 1..Len(rankings) }

GlobalMin == CHOOSE m \in Times : \A x \in Times : m <= x

GlobalMax == CHOOSE m \in Times : \A x \in Times : m >= x

\* The cell of an output row under a column name.
Cell(row, col) ==
    row[CHOOSE c \in 1..Len(output.columns) : output.columns[c] = col]

\* The group of an output row, as the indices of its normalized results.
Members(row) ==
    { i \in 1..Len(rankings) :
        /\ Strftime(rankings[i].Date) = Cell(row, ColDate)
        /\ rankings[i].Venue = Cell(row, ColVenue)
        /\ rankings[i].Country = Cell(row, ColCountry) }

OutputRows == { output.rows[i] : i \in 1..Len(output.rows) }

\* C1: the thresholds are the contiguous integers t_0..t_n, where t_0 is the
\* minute boundary just above the fastest time of the whole batch
\* (floor(min/60)+1) and t_n the larger of t_0 and the first minute boundary
\* not below the slowest time of the whole batch (ceil(max/60)).
C1_ThresholdSet ==
    Calculated =>
        LET t0 == CHOOSE k \in 0..(GlobalMin + 1) :
                      (k - 1) * 60 <= GlobalMin /\ GlobalMin < k * 60
            up == CHOOSE k \in 0..(GlobalMax + 1) :
                      (k - 1) * 60 < GlobalMax /\ GlobalMax <= k * 60
            tn == IF up > t0 THEN up ELSE t0
        IN /\ Len(thresholds) = tn - t0 + 1
           /\ \A i \in 1..Len(thresholds) : thresholds[i] = t0 + i - 1

\* C1 witness: 27:57 and 30:00 lie in different groups, 28:30 is there too,
\* and the thresholds are 28..30 for every group.
C1_Witness ==
    /\ Calculated
    /\ Times = {1677, 1710, 1800}
    /\ Len(output.rows) = 3
    /\ thresholds = << 28, 29, 30 >>

\* C2: one output row per distinct (date, venue, country) of the normalized
\* results; in it the count under every threshold t is the number of group
\* members with time_seconds < t*60, and Fastest displays the group minimum.
C2_Aggregation ==
    Calculated =>
        /\ Cardinality(OutputRows) = Len(output.rows)
        /\ \A i \in 1..Len(rankings) :
               \E row \in OutputRows : i \in Members(row)
        /\ \A row \in OutputRows :
               /\ Members(row) # {}
               /\ \A k \in 1..Len(thresholds) :
                      Cell(row, format_threshold_minutes_to_display(thresholds[k]))
                          = Cardinality({ i \in Members(row) :
                                rankings[i].Perf_seconds < thresholds[k] * 60 })
               /\ \E i \in Members(row) :
                      /\ \A j \in Members(row) :
                             rankings[i].Perf_seconds <= rankings[j].Perf_seconds
                      /\ Cell(row, ColFastest)
                             = format_seconds_to_display(rankings[i].Perf_seconds)

\* C2 witness: a group of two with a member at exactly 30:00, which the
\* threshold 30 does not count, beside another group.
C2_Witness ==
    /\ Calculated
    /\ Len(output.rows) = 2
    /\ thresholds = << 28, 29, 30 >>
    /\ \E row \in OutputRows :
           /\ Cardinality(Members(row)) = 2
           /\ \E i \in Members(row) : rankings[i].Perf_seconds = 1800
           /\ Cell(row, << "<", " ", "3", "0" >>) = 1

\* C3 as claimed: in every output row the count under the last threshold is
\* at least 1.
C3_LastColumnCountsEveryone ==
    Calculated =>
        \A row \in OutputRows :
            Cell(row, format_threshold_minutes_to_display(
                          thresholds[Len(thresholds)])) >= 1

\* C4 as claimed: the results at the fastest time of the batch are not
\* counted under the first threshold.
C4_FirstColumnExcludesFastest ==
    Calculated =>
        \A row \in OutputRows :
            Cell(row, format_threshold_minutes_to_display(thresholds[1]))
                = Cardinality({ i \in Members(row) :
                      /\ rankings[i].Perf_seconds < thresholds[1] * 60
                      /\ rankings[i].Perf_seconds # GlobalMin })

\* C4 amended: the results at the fastest time of the batch are counted under
\* the first threshold, so the row of the fastest result has a count of at
\* least 1 there, and no result lies under the minute boundary before it.
C4_FirstColumnIncludesFastest ==
    Calculated =>
        /\ \A row \in OutputRows :
               (\E i \in Members(row) : rankings[i].Perf_seconds = GlobalMin)
               => Cell(row, format_threshold_minutes_to_display(thresholds[1]))
                      >= Cardinality({ i \in Members(row) :
                             rankings[i].Perf_seconds = GlobalMin })
        /\ \A i \in 1..Len(rankings) :
               rankings[i].Perf_seconds >= (thresholds[1] - 1) * 60

\* C4 witness: the fastest result, 27:57, counted under the first threshold
\* 28 of its row while another row has nothing under it.
C4_Witness ==
    /\ Calculated
    /\ GlobalMin = 1677
    /\ thresholds[1] = 28
    /\ \E row \in OutputRows : Cell(row, << "<", " ", "2", "8" >>) = 2
    /\ \E row \in OutputRows : Cell(row, << "<", " ", "2", "8" >>) = 0

\* The fastest time of the group of an output row, in seconds.
FastestSeconds(row) ==
    CHOOSE m \in { rankings[i].Perf_seconds : i \in Members(row) } :
        \A i \in Members(row) : m <= rankings[i].Perf_seconds

\* The count of an output row under the k-th threshold.
CountAt(row, k) ==
    Cell(row, format_threshold_minutes_to_display(thresholds[k]))

\* C5: of two output rows the earlier one has the larger count at the first
\* threshold where their counts differ, and where no count differs the
\* earlier one has the smaller or equal fastest time in seconds.
C5_RowOrder ==
    Calculated =>
        \A i, j \in 1..Len(output.rows) :
            i < j =>
                LET a == output.rows[i]
                    b == output.rows[j]
                    differ == { k \in 1..Len(thresholds) :
                                  CountAt(a, k) # CountAt(b, k) }
                IN IF differ = {}
                   THEN FastestSeconds(a) <= FastestSeconds(b)
                   ELSE LET k == CHOOSE x \in differ : \A y \in differ : x <= y
                        IN CountAt(a, k) > CountAt(b, k)

\* C5 witness: a batch of sub-hour and over-hour times with two rows equal on
\* every count and different in their fastest time.
C5_Witness ==
    /\ Calculated
    /\ GlobalMin < 3600 /\ GlobalMax >= 3600
    /\ Len(output.rows) = 3
    /\ \E i, j \in 1..Len(output.rows) :
           /\ i < j
           /\ \A k \in 1..Len(thresholds) :
                  CountAt(output.rows[i], k) = CountAt(output.rows[j], k)
           /\ FastestSeconds(output.rows[i]) < FastestSeconds(output.rows[j])

\* The text of a threshold column: "< M" below 60, "< H:MM" from 60 on,
\* written digit by digit.
LabelText(t) ==
    LET two(n) == << DigitChar(n \div 10), DigitChar(n % 10) >>
        num(n) == IF n < 10 THEN << DigitChar(n) >> ELSE two(n)
    IN IF t < 60 THEN << "<", " " >> \o num(t)
       ELSE << "<", " " >> \o num(t \div 60) \o << ":" >> \o two(t % 60)

\* C6: the columns are Date, Venue, Country, Fastest and then one column per
\* threshold in ascending order, all of different names, and nothing else.
C6_Columns ==
    Calculated =>
        /\ Len(output.columns) = 4 + Len(thresholds)
        /\ SubSeq(output.columns, 1, 4)
               = << ColDate, ColVenue, ColCountry, ColFastest >>
        /\ \A k \in 1..Len(thresholds) :
               output.columns[4 + k] = LabelText(thresholds[k])
        /\ \A k \in 1..(Len(thresholds) - 1) :
               thresholds[k] < thresholds[k + 1]
        /\ \A c, d \in 1..Len(output.columns) :
               c # d => output.columns[c] # output.columns[d]
        /\ \A i \in 1..Len(output.rows) :
               Len(output.rows[i]) = Len(output.columns)

\* C6 witness: thresholds on both sides of the hour.
C6_Witness ==
    /\ Calculated
    /\ thresholds = << 59, 60, 61 >>
    /\ output.columns[5] = << "<", " ", "5", "9" >>
    /\ output.columns[6] = << "<", " ", "1", ":", "0", "0" >>

\* The positions of the commas of a text.
Commas(v) == { k \in 1..Len(v) : v[k] = "," }

\* country is rest without the spaces at its ends.
Trimmed(rest, country) ==
    \E a \in 1..(Len(rest) + 1), b \in 0..Len(rest) :
        /\ country = SubSeq(rest, a, b)
        /\ \A k \in 1..Len(rest) : (k < a \/ k > b) => rest[k] = " "
        /\ country # << >> => country[1] # " " /\ country[Len(country)] # " "

\* What the claim says of a venue cell v.
VenueCountryOf(v, venue, country) ==
    IF Commas(v) = {}
    THEN venue = v /\ country = << "U", "K" >>
    ELSE LET k == CHOOSE x \in Commas(v) : \A y \in Commas(v) : x <= y
         IN /\ venue = SubSeq(v, 1, k - 1)
            /\ Trimmed(SubSeq(v, k + 1, Len(v)), country)

\* A text is a time: digits, ":", two digits, and maybe ":" and two digits.
IsTimeText(s) ==
    \E k \in 1..Len(s) :
        /\ \A i \in 1..k : IsDigit(s[i])
        /\ Len(s) - k \in {3, 6}
        /\ \A i \in (k + 1)..Len(s) :
               IF i - k \in {1, 4} THEN s[i] = ":" ELSE IsDigit(s[i])

\* The raw rows that are kept, by their positions in the table.
Retained == { i \in 1..Len(table.rows) : IsTimeText(table.rows[i].Perf) }

\* The one-to-one matchings of the returned rows with the retained raw rows.
Matchings ==
    { p \in [1..Len(rankings) -> Retained] :
        /\ \A i, j \in 1..Len(rankings) : i # j => p[i] # p[j]
        /\ \A i \in 1..Len(rankings) : rankings[i].Perf = table.rows[p[i]].Perf }

\* C7: the returned rows are the retained raw rows, each with Venue the text
\* before the first comma of its venue cell (no comma in it) and Country the
\* trimmed text after that comma, or "UK" when the cell has no comma.
C7_VenueSplit ==
    (pc \in {"ranked", "calculated"} /\ rankings # << >>) =>
        /\ Len(rankings) = Cardinality(Retained)
        /\ \E p \in Matchings :
               \A i \in 1..Len(rankings) :
                   VenueCountryOf(table.rows[p[i]].Venue,
                                  rankings[i].Venue, rankings[i].Country)
        /\ \A i \in 1..Len(rankings) : Commas(rankings[i].Venue) = {}

\* C7 witness: a venue cell of two commas and spaces beside one of no comma.
C7_Witness ==
    /\ pc = "ranked"
    /\ \E i \in 1..Len(rankings) :
           /\ rankings[i].Venue = << "P" >>
           /\ rankings[i].Country = << "G", ",", " ", "B" >>
    /\ \E i \in 1..Len(rankings) :
           /\ rankings[i].Venue = << "B" >>
           /\ rankings[i].Country = << "U", "K" >>
    /\ \E i \in 1..Len(table.rows) : table.rows[i].Venue = << "B" >>

\* The table without the rows whose Perf is no time.
WithoutUntimed ==
    [ hasDate |-> table.hasDate,
      rows |-> SelectSeq(table.rows, LAMBDA r : IsTimeText(r.Perf)) ]

\* C8: with a row whose Perf is no time in the table, the run ends as a run
\* on the table without such rows can end: the same exception or none, the
\* same returned frame, the same thresholds and the same final table; the
\* row is in no group and in no count.
C8_UntimedRowDropped ==
    (pc # "start" /\ Retained # 1..Len(table.rows)) =>
        /\ [raised |-> raised, df |-> rankings] \in get_ranking_data(WithoutUntimed)
        /\ Len(rankings) <= Cardinality(Retained)
        /\ \A i \in 1..Len(rankings) : IsTimeText(rankings[i].Perf)
        /\ pc = "calculated" =>
               /\ output = calculate_performance_metrics(rankings)
               /\ \A i \in 1..Len(output.rows) :
                      \A k \in 1..Len(thresholds) :
                          CountAt(output.rows[i], k) <= Cardinality(Retained)
        /\ table.hasDate => raised = "none"

\* C8 witness: a table of two times and one "abc", the final table made of
\* the two times only.
C8_Witness ==
    /\ Calculated
    /\ Len(table.rows) = 3
    /\ Cardinality(Retained) = 2
    /\ \E i \in 1..Len(table.rows) : table.rows[i].Perf = << "a", "b", "c" >>
    /\ Len(rankings) = 2
    /\ Len(output.rows) = 2

\* C9 as claimed: a table without a Date column always ends in ValueError.
C9_NoDateAlwaysFails ==
    (pc # "start" /\ ~table.hasDate) => (pc = "failed" /\ raised = "ValueError")

\* C10: when no raw row is a time, get_ranking_data raises nothing and
\* returns an empty frame, and calculate_performance_metrics of an empty
\* frame returns a frame of the four fixed columns and no rows.
C10_EmptyResult ==
    /\ (pc # "start" /\ Retained = {}) =>
           (raised = "none" /\ rankings = << >> /\ pc \in {"ranked", "calculated"})
    /\ (pc = "calculated" /\ rankings = << >>) =>
           /\ output.rows = << >>
           /\ output.columns = << ColDate, ColVenue, ColCountry, ColFastest >>

\* C10 witness: every row of a table dropped, with and without a Date
\* column the same: here without, after the calculation.
C10_Witness ==
    /\ pc = "calculated"
    /\ Len(table.rows) = 2
    /\ ~table.hasDate
    /\ Retained = {}
    /\ rankings = << >>
    /\ output.rows = << >>

\* Every normalized result has the same time.
Degenerate == Calculated /\ GlobalMin = GlobalMax

\* C11 as claimed: for a batch of one time value the thresholds are the one
\* boundary ceil(global_min_seconds/60).
C11_SingleBoundaryIsCeil ==
    Degenerate =>
        /\ raised = "none"
        /\ thresholds =
               << CHOOSE k \in 0..(GlobalMin + 1) :
                      (k - 1) * 60 < GlobalMin /\ GlobalMin <= k * 60 >>

\* C11 amended: for a batch of one time value no error is raised and the
\* thresholds are the one boundary floor(global_min_seconds/60)+1, the first
\* minute boundary strictly above the time: ceil(global_min_seconds/60) for a
\* time that is no whole number of minutes, and one more for one that is.
C11_SingleBoundaryAboveTime ==
    Degenerate =>
        /\ raised = "none"
        /\ Len(thresholds) = 1
        /\ (thresholds[1] - 1) * 60 <= GlobalMin
        /\ GlobalMin < thresholds[1] * 60

\* C11 witness: every result at 30:00, and the one boundary 31.
C11_Witness ==
    /\ Degenerate
    /\ Len(rankings) >= 2
    /\ GlobalMin = 1800
    /\ thresholds = << 31 >>

\* C13: for a batch of one time value there is a boundary, and in every
\* output row the count under every boundary is the size of the row's group.
C13_SameTimeCountsGroup ==
    Degenerate =>
        /\ Len(thresholds) >= 1
        /\ \A row \in OutputRows :
               \A k \in 1..Len(thresholds) :
                   CountAt(row, k) = Cardinality(Members(row))

\* C13 witness: three results at 30:00, two of them in one group.
C13_Witness ==
    /\ Degenerate
    /\ GlobalMin = 1800
    /\ Len(output.rows) = 2
    /\ \E row \in OutputRows :
           Cardinality(Members(row)) = 2 /\ CountAt(row, 1) = 2

\* The number a run of digits writes, read digit by digit.
RECURSIVE NumberOf(_)
NumberOf(s) ==
    IF s = << >> THEN 0
    ELSE NumberOf(SubSeq(s, 1, Len(s) - 1)) * 10
         + (CHOOSE d \in 0..9 :
                << "0", "1", "2", "3", "4", "5", "6", "7", "8", "9" >>[d + 1]
                    = s[Len(s)])

\* The seconds a time text stands for: its last two digits, sixty times the
\* field before them, and, of three fields, 3600 times the first.
TimeValue(s) ==
    LET n == Len(s)
        colons == { i \in 1..n : s[i] = ":" }
    IN IF Cardinality(colons) = 1
       THEN NumberOf(SubSeq(s, 1, n - 3)) * 60 + NumberOf(SubSeq(s, n - 1, n))
       ELSE NumberOf(SubSeq(s, 1, n - 6)) * 3600
            + NumberOf(SubSeq(s, n - 4, n - 3)) * 60
            + NumberOf(SubSeq(s, n - 1, n))

\* The table holds one result and its Perf cell is a time.
OneTimed == Len(table.rows) = 1 /\ IsTimeText(table.rows[1].Perf)

\* C12: for every Perf text the pattern accepts, fields above 59 and
\* minutes of 60 or more included, the seconds computed from it are the sum
\* of its fields times 60^i from the right, and the Fastest text formatted
\* from those seconds is again a text the pattern accepts and stands for the
\* same number of seconds.
C12_FormatParsesBack ==
    (OneTimed /\ pc = "calculated") =>
        /\ Len(rankings) = 1 /\ Len(output.rows) = 1
        /\ rankings[1].Perf_seconds = TimeValue(table.rows[1].Perf)
        /\ IsTimeText(Cell(output.rows[1], ColFastest))
        /\ TimeValue(Cell(output.rows[1], ColFastest))
               = TimeValue(table.rows[1].Perf)

\* C12 witness: 99:99 is 6039 seconds and is shown as 1:40:39.
C12_Witness ==
    /\ OneTimed /\ pc = "calculated"
    /\ table.rows[1].Perf = << "9", "9", ":", "9", "9" >>
    /\ rankings[1].Perf_seconds = 6039
    /\ Cell(output.rows[1], ColFastest)
           = << "1", ":", "4", "0", ":", "3", "9" >>

\* The orders a table of n rows can come in.
RowOrders(n) ==
    { p \in [1..n -> 1..n] : \A i, j \in 1..n : p[i] = p[j] => i = j }

\* The table with its rows in the order p.
Permuted(p) ==
    [ hasDate |-> table.hasDate,
      rows |-> [i \in 1..Len(table.rows) |-> table.rows[p[i]]] ]

\* C14: the final table depends only on the multiset of the input rows. In
\* whatever order the rows of the table come, get_ranking_data has the same
\* outcomes, and whichever of them the run took, however the sort by Perf
\* left the results of equal Perf, calculate_performance_metrics returned
\* the one table that the table of input rows fixes: the same columns and
\* the same rows in the same order, rows tied on every sort key included.
C14_OrderIndependent ==
    pc = "calculated" =>
        /\ \A p \in RowOrders(Len(table.rows)) :
               get_ranking_data(Permuted(p)) = get_ranking_data(table)
        /\ LET r == CHOOSE x \in get_ranking_data(table) : TRUE
           IN /\ r.raised = "none"
              /\ calculate_performance_metrics(r.df) = output

\* C14 witness: two results of the same time on two days, the later day
\* first among the results, the earlier day first in the final table, and
\* the two final rows equal in every sort column.
C14_Witness ==
    /\ Calculated
    /\ Len(rankings) = 2 /\ Len(output.rows) = 2
    /\ rankings[1].Perf_seconds = rankings[2].Perf_seconds
    /\ KeyLess(GroupKey(rankings[2]), GroupKey(rankings[1]))
    /\ Cell(output.rows[1], ColDate) = Strftime(rankings[2].Date)
    /\ Cell(output.rows[2], ColDate) = Strftime(rankings[1].Date)
    /\ Cell(output.rows[1], ColFastest) = Cell(output.rows[2], ColFastest)
    /\ \A k \in 1..Len(thresholds) :
           CountAt(output.rows[1], k) = CountAt(output.rows[2], k)

\* C15: perform_analysis calls generate_and_open_html_report at most once,
\* and only when get_ranking_data has returned a table that is not empty
\* and calculate_performance_metrics has then returned a table that is not
\* empty. When the ranking data or the metrics are empty, or a step raised
\* a ConnectionError, a ValueError or another exception, no report was
\* written unless it was the writing that raised, and in no case does the
\* exception leave perform_analysis.
C15_ReportOnlyAfterBothSteps ==
    /\ reports \in {0, 1}
    /\ reports = 1 =>
           /\ rankings # << >> /\ output.rows # << >>
           /\ output = calculate_performance_metrics(rankings)
           /\ pc = "returned"
    /\ (rankings = << >> \/ output.rows = << >>) => reports = 0
    /\ (raised \in FetchRaises) => (reports = 0 /\ pc = "returned")
    /\ pc # "escaped"

\* C15 witness: the report was written once, for a table of two rows, and
\* perform_analysis has returned.
C15_Witness ==
    /\ pc = "returned" /\ raised = "none" /\ reports = 1
    /\ Len(rankings) = 3 /\ Len(output.rows) = 2

====
